---- MODULE Spec2Model ----
(***************************************************************************)
(* VisuaLearn backend: the pipeline Orchestrator (planning, generation,    *)
(* review/refinement loop, conversion, storage, cleanup) and the MCP       *)
(* refinement worker it shares between concurrent pipeline runs.           *)
(*                                                                         *)
(* Each run r of Orchestrator.orchestrate is a coroutine on one asyncio    *)
(* event loop; pc[r] is the await at which it is suspended.  The fields of *)
(* the module-level Orchestrator (mcp_process, _message_id, _started) and  *)
(* the temp directory of the FileManager are shared by all runs.          *)
(***************************************************************************)
EXTENDS Integers, Sequences, FiniteSets, TLC

\* ------------------------------------------------------------------ bounds
\* Largest configured review_max_iterations explored (the setting is any int).
MaxIterBound == 2
\* Worker crashes explored (the worker is an external process).
MaxCrashes == 1

\* ------------------------------------------------------- program constants
\* config.py: review_max_iterations default.
DefaultMaxIterations == 3
\* orchestrator.py: score of the synthesized first-iteration review.
FallbackScore == 70
\* review_agent.py _determine_approval thresholds.
GoodScore == 80
AcceptableScore == 60
\* orchestrator.py: self.mcp_process = None.
NoProcess == 0

\* Concurrent requests served by the module-level Orchestrator of api/diagram.py.
Runs == {1, 2}
\* Values of review_max_iterations explored: the setting is an unvalidated int,
\* so zero and a negative value are configurable too.
IterationSettings == (-1)..MaxIterBound
\* Scores the review service returns: one in each band of _determine_approval.
Scores == {50, 75, 95}

NoXml == <<0, 0>>
NoFile == <<0, "none">>
NoReview == [score |-> -1, approved |-> FALSE, iteration |-> 0, feedback |-> "none"]
NoCount == -1
NoId == ""
NoSvg == <<"svg", NoXml, "none">>
NoBytes == <<"none">>
\* No direct call has been made on the file manager.
NoCall == [op |-> "none", name |-> NoFile, outcome |-> "none"]
FileNotFound == <<"FileOperationError", "File not found">>
NoResult == [svg_filename |-> NoFile, xml_filename |-> NoFile, review_score |-> -1,
             iterations |-> -1, step_times |-> {}, refinement_attempts |-> << >>]

VARIABLES
    max_iterations,       \* ReviewAgent.max_iterations (settings.review_max_iterations)
    pc,                   \* pc[r]: the await run r is suspended at
    iteration,            \* orchestrate local
    review_result,        \* orchestrate local (NoReview = None)
    refinement_attempts,  \* orchestrate local
    xml_content,          \* orchestrate local: <<owner run, version>>
    svg_filename,         \* orchestrate local (NoFile = None)
    xml_filename,         \* orchestrate local (NoFile = None)
    exc,                  \* exception in flight inside orchestrate's try block
    raised,               \* type of the exception orchestrate raised to its caller
    raised_msg,           \* message prefix of that exception
    raised_wraps,         \* the exception whose text that message embeds (str(e))
    result,               \* OrchestrationResult returned (NoResult = none)
    msg_id,               \* _refine_via_mcp local: id of the request of the call in progress (0 = no call)
    reader,               \* worker whose stdout the current _refine_via_mcp call reads
    mcp_process,          \* Orchestrator.mcp_process (index into procs, NoProcess = None)
    message_id,           \* Orchestrator._message_id
    started,              \* Orchestrator._started
    procs,                \* every worker process ever started, by pid order
    crashes,              \* number of worker crashes so far
    files,                \* names of the files in the FileManager's temp_dir
    \* history of the calls each run made, read only by the properties
    n_validate,           \* ReviewAgent.validate calls
    n_refine,             \* _refine_via_mcp calls
    n_to_svg,             \* ImageConverter.to_svg calls
    converted,            \* to_svg returned successfully
    n_save,               \* FileManager.save_file calls
    deleted,              \* names passed to FileManager.delete_file
    delete_failed,        \* names whose delete_file raised FileOperationError
    review_err_at,        \* iteration whose validate raised ReviewError (0 = none)
    foreign_reply,        \* a refine call of the run returned the response to another request
    refine_failed_at,     \* iteration whose _refine_via_mcp call raised (0 = none)
    request_id,           \* orchestrate local: the run's correlation id
    step_times,           \* orchestrate local: the stages with a recorded elapsed time
    records,              \* the debug records each run has stored (response_storage)
    reviewed,             \* the artifact the last returned validate call was given
    user_input,           \* the user_input argument of each orchestrate call
    n_analyze,            \* calls of the concept-analysis service (_analyze_internal)
    cell_count,           \* orchestrate local: "<mxCell" count of the final artifact
    thin_warned,          \* the "XML appears incomplete" warning was logged
    stream_pc,            \* progress_stream generator of run r: where it is suspended
    events,               \* the events the generator has yielded, in order
    diagram_svg,          \* orchestrate local: the SVG text to_svg returned
    file_bytes,           \* content of each file written into temp_dir, by name
    ttl_task,             \* per name: the _cleanup_file_after_ttl task save_file created
    expired,              \* the names whose modification time is older than the TTL
    fm_call               \* the last call made directly on the file manager

runVars == <<pc, iteration, review_result, refinement_attempts, xml_content,
             svg_filename, xml_filename, exc, raised, raised_msg, raised_wraps,
             result>>
chanVars == <<msg_id, reader, mcp_process, message_id, started, procs, crashes,
              foreign_reply, refine_failed_at>>
callVars == <<n_validate, n_refine, n_to_svg, converted, n_save, review_err_at>>
reviewVars == <<reviewed>>
histVars == <<callVars, deleted, delete_failed>>
\* What the except clauses of orchestrate write.
handlerVars == <<exc, raised, raised_msg, raised_wraps, deleted, delete_failed,
                 files>>
storeVars == <<diagram_svg, file_bytes>>
ctxVars == <<request_id, step_times, records>>
streamVars == <<stream_pc, events>>
inputVars == <<user_input, n_analyze, cell_count, thin_warned>>
\* The file manager's TTL bookkeeping: the asyncio task created for each saved
\* file, the names whose modification time is more than the TTL in the past,
\* and the last direct call made on the file manager.
ttlVars == <<ttl_task, expired, fm_call>>
vars == <<max_iterations, runVars, chanVars, files, histVars, storeVars, ctxVars,
          streamVars, inputVars, reviewVars, ttlVars>>

Terminal == {"done", "failed"}

\* ---------------------------------------------------------------- helpers
Max(a, b) == IF a >= b THEN a ELSE b

\* uuid4-named file of run r: each run saves each format at most once.
FileName(r, fmt) == <<r, fmt>>

\* Every name save_file can hand out to the runs.
AllNames == {FileName(r, fmt) : r \in Runs, fmt \in {"svg", "xml"}}

\* str.encode("utf-8"): the bytes of a text.
Encode(text) == <<"utf-8", text>>

\* ImageConverter.to_svg(xml): the SVG text rendered from an artifact.
Render(xml) == <<"svg", xml, "rendered">>

\* if len(user_input) > 1000
MaxTopicLength == 1000

\* Characters str.strip() removes.
Whitespace == {" ", "\t", "\n"}

\* A text of n copies of the character c.
Repeat(c, n) == [i \in 1..n |-> c]

\* str.strip(): the text without leading and trailing whitespace.
Strip(s) ==
    LET solid == {i \in DOMAIN s : s[i] \notin Whitespace} IN
      IF solid = {} THEN << >>
      ELSE SubSeq(s, CHOOSE i \in solid : \A j \in solid : i <= j,
                     CHOOSE i \in solid : \A j \in solid : i >= j)

\* Variant: the input is not stripped before the emptiness test.
TopicValidUnstripped(s) == s # << >> /\ Len(s) <= MaxTopicLength

\* PlanningAgent.analyze: the input passes the two validation tests
\* (not user_input or not user_input.strip(); len(user_input) > 1000).
TopicValid(s) == ~(s = << >> \/ Strip(s) = << >>) /\ ~(Len(s) > MaxTopicLength)

\* The topic of the runs whose input is not varied.
Topic == <<"a">>

\* The inputs tried: empty, whitespace only, padded, at and above the limit.
Inputs ==
    {<< >>, <<" ">>, <<" ", "\t", " ">>, Topic, <<" ", "a", " ">>,
     Repeat("x", MaxTopicLength), Repeat("x", MaxTopicLength + 1),
     Repeat(" ", MaxTopicLength + 1)}

\* len(plan.components) + len(plan.relationships) of the plan the runs get.
PlanElements == 4

\* "+2 for root cells"
RootCells == 2

\* expected_cells = len(plan.components) + len(plan.relationships) + 2
expected_cells == PlanElements + RootCells

\* if cell_count < expected_cells // 2: log the warning
Thin(cells) == cells < expected_cells \div 2

\* validate_xml: "Diagram has insufficient cells" below this number
MinCells == 2

\* Variant: validate_xml accepts any number of cells.
validate_xml_any(cells) == TRUE

\* ImageConverter.validate_xml passes an artifact with this many mxCell elements.
validate_xml(cells) == ~(cells < MinCells)

\* The cell counts of final artifacts: too few for the converter, thin, complete.
CellCounts == {1, 2, expected_cells}

\* request_id = str(uuid.uuid4())[:8], drawn when orchestrate is entered.
RequestId(r) == "uuid4-" \o ToString(r)

\* The keys of step_times the endpoint reads from a result's metadata.
StepTimeKeys == {"planning", "generation", "review", "conversion", "storage"}

\* Variant: the refinement record is stored without the request id (the
\* parameter's default).
RecordIdDefaulted(r, step) == IF step = "refinement" THEN NoId ELSE request_id[r]

\* The request_id argument of the store_*_response call for a step.
RecordId(r, step) == request_id[r]

\* response_data written by store_<step>_response(..., iteration, request_id).
Record(r, step, it) == [step |-> step, iteration |-> it, request_id |-> RecordId(r, step)]

\* Run r stores the debug record of a step.
Store(r, step, it) == records' = [records EXCEPT ![r] = @ \cup {Record(r, step, it)}]

\* Variant: the review time is not recorded.
StagesTimedWithoutReview(from, target) ==
    IF from = "generation" THEN {"generation"} ELSE {}

\* The step_times entries written on the way from the await `from` to target:
\* step_times["generation"] after generate returned, step_times["review"] when
\* the loop is left with a review result.
StagesTimed(from, target) ==
    (IF from = "generation" THEN {"generation"} ELSE {})
      \cup (IF target[1] = "conversion" THEN {"review"} ELSE {})

\* Variant: the entry records the number of refinements made so far.
HistoryEntryCountsFromZero(it, rr) == [iteration |-> it - 1, score |-> rr.score]

\* The dict appended to refinement_attempts after a refinement in iteration
\* it that review rr asked for.
HistoryEntry(it, rr) == [iteration |-> it, score |-> rr.score]

\* Variant: a refinement is entered in the history of the run whose artifact
\* the response carries.
HistoryOwnerByResponse(r, resp) == resp.xml[1]

\* refinement_attempts is a local of the orchestrate call that appends to it.
HistoryOwner(r, resp) == r

\* ReviewAgent._determine_approval(score, iteration)
determine_approval(score, it) ==
    IF score >= GoodScore THEN TRUE
    ELSE IF score >= AcceptableScore THEN it >= 2
    ELSE it >= max_iterations

\* ReviewOutput built by ReviewAgent._validate_internal
ReviewOutput(score, it) ==
    [score |-> score, approved |-> determine_approval(score, it),
     iteration |-> it, feedback |-> "llm"]

\* The fallback ReviewOutput orchestrate synthesizes.
FallbackReview(it) ==
    [score |-> FallbackScore, approved |-> TRUE, iteration |-> it, feedback |-> "auto"]

\* Variant: the fallback replaces the review result on every ReviewError.
OnReviewErrorAlways(rr, it) == FallbackReview(it)

\* except ReviewError: the review result the loop leaves with.
OnReviewError(rr, it) == IF rr = NoReview THEN FallbackReview(it) ELSE rr

\* Variant: an approved review does not end the loop.
ExitsLoopNever(rr) == FALSE

\* if review_result.approved: break
ExitsLoop(rr) == rr.approved

\* Variant: the loop bound is inclusive.
LoopContinuesInclusive(it) == it <= max_iterations

\* while iteration < self.review_agent.max_iterations
LoopContinues(it) == it < max_iterations

\* Variant: the refinement guard is off by one.
ShouldRefineOffByOne(it) == it <= max_iterations

\* if iteration < self.review_agent.max_iterations: refine via MCP
ShouldRefine(it) == it < max_iterations

\* Where control goes when the while loop is left with review result rr:
\* <<next await, exception raised>>.
AfterLoop(rr) ==
    IF rr = NoReview THEN <<"raise", "OrchestrationError">>
    ELSE <<"conversion", "none">>

\* Variant: the loop goes back to the generation stage.
LoopTopRegenerates(it, rr) ==
    IF it > 0 /\ LoopContinues(it) THEN <<"generation", "none">>
    ELSE IF LoopContinues(it) THEN <<"review", "none">> ELSE AfterLoop(rr)

\* Top of the while loop with the given locals.
LoopTop(it, rr) == IF LoopContinues(it) THEN <<"review", "none">> ELSE AfterLoop(rr)

\* Variant: only PlanningError and GenerationError are wrapped.
RaisedTypeUnwrapped(e) ==
    IF e \in {"PlanningError", "GenerationError"} THEN "OrchestrationError" ELSE e

\* The except clauses of orchestrate: type raised to the caller for exception e.
RaisedType(e) == "OrchestrationError"

\* Variant: every failure is reported by the generic handler.
RaisedMessageGeneric(e) == "Pipeline failed"

\* Message prefix of the OrchestrationError raised for exception e.
RaisedMessage(e) ==
    IF e = "PlanningError" THEN "Concept analysis failed"
    ELSE IF e = "GenerationError" THEN "Diagram generation failed"
    ELSE "Pipeline failed"

\* Only the generic handler cleans up.
HandlerCleansUp(e) == e \notin {"PlanningError", "GenerationError"}

\* ------------------------------------------------------------------- Init
\* Orchestrator() constructed at import, no request received yet.
Constructed ==
    /\ pc = [r \in Runs |-> "planning"]
    /\ iteration = [r \in Runs |-> 0]
    /\ review_result = [r \in Runs |-> NoReview]
    /\ refinement_attempts = [r \in Runs |-> << >>]
    /\ xml_content = [r \in Runs |-> NoXml]
    /\ svg_filename = [r \in Runs |-> NoFile]
    /\ xml_filename = [r \in Runs |-> NoFile]
    /\ exc = [r \in Runs |-> "none"]
    /\ raised = [r \in Runs |-> "none"]
    /\ raised_msg = [r \in Runs |-> "none"]
    /\ raised_wraps = [r \in Runs |-> "none"]
    /\ result = [r \in Runs |-> NoResult]
    /\ msg_id = [r \in Runs |-> 0]
    /\ reader = [r \in Runs |-> NoProcess]
    /\ mcp_process = NoProcess
    /\ message_id = 0
    /\ started = FALSE
    /\ procs = << >>
    /\ crashes = 0
    /\ files = {}
    /\ n_validate = [r \in Runs |-> 0]
    /\ n_refine = [r \in Runs |-> 0]
    /\ n_to_svg = [r \in Runs |-> 0]
    /\ converted = [r \in Runs |-> FALSE]
    /\ n_save = [r \in Runs |-> 0]
    /\ deleted = [r \in Runs |-> {}]
    /\ delete_failed = [r \in Runs |-> {}]
    /\ review_err_at = [r \in Runs |-> 0]
    /\ foreign_reply = [r \in Runs |-> FALSE]
    /\ refine_failed_at = [r \in Runs |-> 0]
    /\ request_id = [r \in Runs |-> RequestId(r)]
    /\ step_times = [r \in Runs |-> {}]
    /\ records = [r \in Runs |-> {}]
    /\ n_analyze = [r \in Runs |-> 0]
    /\ reviewed = [r \in Runs |-> NoXml]
    /\ cell_count = [r \in Runs |-> NoCount]
    /\ thin_warned = [r \in Runs |-> FALSE]
    /\ diagram_svg = [r \in Runs |-> NoSvg]
    /\ file_bytes = [n \in AllNames |-> NoBytes]
    /\ ttl_task = [n \in AllNames |-> "none"]
    /\ expired = {}
    /\ fm_call = NoCall

\* Every run is given the same valid topic.
SameTopic == user_input = [r \in Runs |-> Topic]

\* The runs are calls of the plain endpoint: no progress stream.
NoStream ==
    /\ stream_pc = [r \in Runs |-> "off"]
    /\ events = [r \in Runs |-> << >>]

Init ==
    /\ max_iterations \in IterationSettings
    /\ Constructed
    /\ NoStream
    /\ SameTopic

\* ------------------------------------------------------- pipeline stages
\* Variant: the handler forgets the SVG file.
CleanupTargetsXmlOnly(e, svg, xml) ==
    IF HandlerCleansUp(e) THEN {xml} \ {NoFile} ELSE {}

\* Variant: the handler deletes whatever is in temp_dir.
CleanupTargetsAnyFile(e, svg, xml) == files

\* The names the handler for exception e passes to FileManager.delete_file, svg
\* and xml being the locals svg_filename and xml_filename when e was raised.
CleanupTargets(e, svg, xml) ==
    IF HandlerCleansUp(e) THEN {svg, xml} \ {NoFile} ELSE {}

\* Variant: a failed deletion replaces the error being reported.
WrappedErrorLastRaised(e, failing) == IF failing # {} THEN "CleanupError" ELSE e

\* raise OrchestrationError(f"...: {str(e)}"): the exception the raised error
\* describes, e being the one caught and failing the deletions that raised
\* (their FileOperationError, cleanup_error, is only logged).
WrappedError(e, failing) == e

\* Exception e leaves the try block of run r: the except clauses of orchestrate.
\* PlanningError and GenerationError are re-raised wrapped; any other Exception
\* first deletes the saved files (delete_file has no await inside, so the handler
\* runs without suspension; a FileOperationError of delete_file is only logged).
\* disk is the content of temp_dir when e was raised.
Throw(r, e, svg, xml, disk) ==
    /\ exc' = [exc EXCEPT ![r] = e]
    /\ LET targets == CleanupTargets(e, svg, xml) IN
         \E failing \in SUBSET targets :
           /\ deleted' = [deleted EXCEPT ![r] = targets]
           /\ delete_failed' = [delete_failed EXCEPT ![r] = failing]
           /\ files' = disk \ (targets \ failing)
           /\ raised_wraps' = [raised_wraps EXCEPT ![r] = WrappedError(e, failing)]
    /\ raised' = [raised EXCEPT ![r] = RaisedType(e)]
    /\ raised_msg' = [raised_msg EXCEPT ![r] = RaisedMessage(e)]
    /\ pc' = [pc EXCEPT ![r] = "failed"]

\* Run r goes on to its next await.
Continue(r, next) ==
    /\ pc' = [pc EXCEPT ![r] = next]
    /\ UNCHANGED handlerVars

\* Control moves as computed by LoopTop / AfterLoop (nothing is saved yet).
Goto(r, target) ==
    /\ step_times' = [step_times EXCEPT ![r] = @ \cup StagesTimed(pc[r], target)]
    /\ IF target[1] = "raise"
       THEN Throw(r, target[2], NoFile, NoFile, files)
       ELSE Continue(r, target[1])

\* Step 1: plan = await self.planning_agent.analyze(user_input)
Planning(r) ==
    /\ pc[r] = "planning"
    /\ IF ~TopicValid(user_input[r])
       THEN \* rejected by analyze before the service is called
            /\ Throw(r, "PlanningError", NoFile, NoFile, files)
            /\ UNCHANGED <<step_times, records, n_analyze>>
       ELSE /\ n_analyze' = [n_analyze EXCEPT ![r] = @ + 1]
            /\ \/ /\ step_times' = [step_times EXCEPT ![r] = @ \cup {"planning"}]
                  /\ Store(r, "planning", 0)
                  /\ Continue(r, "generation")
               \/ /\ Throw(r, "PlanningError", NoFile, NoFile, files)
                  /\ UNCHANGED <<step_times, records>>
    /\ UNCHANGED <<max_iterations, ttlVars, reviewVars, user_input, cell_count, thin_warned, streamVars, request_id, storeVars, iteration, review_result, refinement_attempts,
                   xml_content, svg_filename, xml_filename, result, chanVars,
                   callVars>>

\* Step 2: xml_content = await self.diagram_generator.generate(plan), then the
\* loop locals are initialised and the while condition is evaluated.
Generation(r) ==
    /\ pc[r] = "generation"
    /\ \/ /\ xml_content' = [xml_content EXCEPT ![r] = <<r, 1>>]
          /\ Store(r, "generation", 0)
          /\ Goto(r, LoopTop(0, NoReview))
       \/ /\ Throw(r, "GenerationError", NoFile, NoFile, files)
          /\ UNCHANGED <<xml_content, step_times, records>>
    /\ UNCHANGED <<max_iterations, ttlVars, reviewVars, inputVars, streamVars, request_id, storeVars, iteration, review_result, refinement_attempts,
                   svg_filename, xml_filename, result, chanVars, callVars>>

\* Step 3, one pass of the while loop up to its next await: iteration += 1 and
\* review_result = await self.review_agent.validate(xml_content, plan, iteration),
\* then the approval / refinement / max-iterations decision or the ReviewError handler.
ReviewWith(r, scores) ==
    /\ pc[r] = "review"
    /\ LET it == iteration[r] + 1 IN
         /\ iteration' = [iteration EXCEPT ![r] = it]
         /\ n_validate' = [n_validate EXCEPT ![r] = @ + 1]
         /\ \/ \* validate raises ReviewError (timeout, bad JSON, bad score, empty xml)
               LET rr == OnReviewError(review_result[r], it) IN
                 /\ review_result' = [review_result EXCEPT ![r] = rr]
                 /\ review_err_at' = [review_err_at EXCEPT ![r] = it]
                 /\ UNCHANGED <<records, reviewed>>
                 /\ Goto(r, AfterLoop(rr))
            \/ \* validate returns a ReviewOutput
               \E s \in scores :
                 LET rr == ReviewOutput(s, it) IN
                   /\ review_result' = [review_result EXCEPT ![r] = rr]
                   /\ UNCHANGED review_err_at
                   /\ reviewed' = [reviewed EXCEPT ![r] = xml_content[r]]
                   /\ Store(r, "review", it)
                   /\ IF ExitsLoop(rr) THEN Goto(r, AfterLoop(rr))
                      ELSE IF ShouldRefine(it) THEN Goto(r, <<"refine", "none">>)
                      ELSE Goto(r, LoopTop(it, rr))
    /\ UNCHANGED <<max_iterations, ttlVars, inputVars, streamVars, request_id, storeVars, refinement_attempts, xml_content, svg_filename,
                   xml_filename, result, chanVars, n_refine, n_to_svg, converted,
                   n_save>>

Review(r) == ReviewWith(r, Scores)

\* ------------------------------------------------- refinement channel (MCP)
\* A freshly started worker process (subprocess.Popen).
NewWorker == [alive |-> TRUE, inbox |-> << >>, outbox |-> << >>, orphans |-> 0]

\* The worker's answer to a request: the refined artifact is the next version of
\* the artifact the request carried.
Response(req, ok) == [id |-> req.id, xml |-> <<req.xml[1], req.xml[2] + 1>>, ok |-> ok]

\* Variant: a worker is started for every call.
NeedsStartAlways == TRUE

\* Variant: the liveness check (poll) is skipped.
NeedsStartUnpolled == mcp_process = NoProcess

\* _ensure_mcp_server: a worker must be started
\* (self.mcp_process is None or self.mcp_process.poll() is not None).
NeedsStart == IF mcp_process = NoProcess THEN TRUE ELSE ~procs[mcp_process].alive

\* Variant: the id counter starts again with every new worker.
get_next_message_id_per_worker == IF NeedsStart THEN 1 ELSE message_id + 1

\* _get_next_message_id: self._message_id += 1; return self._message_id
get_next_message_id == message_id + 1

\* Variant: the readline is awaited without a timeout.
ReadWithoutTimeout == FALSE

\* asyncio.wait_for(..., timeout=10.0) around the readline
ReadHasTimeout == TRUE

\* Variant: a failed refinement is retried from the top of the loop.
RefineFailedRetries(r) ==
    /\ refine_failed_at' = [refine_failed_at EXCEPT ![r] = iteration[r]]
    /\ Goto(r, LoopTop(iteration[r], review_result[r]))

\* except OrchestrationError as mcp_error: break (the loop is left with the
\* current artifact and review result).
RefineFailed(r) ==
    /\ refine_failed_at' = [refine_failed_at EXCEPT ![r] = iteration[r]]
    /\ Goto(r, AfterLoop(review_result[r]))

\* The call self._refine_via_mcp(xml_content, feedback) up to its await:
\* _ensure_mcp_server, _get_next_message_id, stdin.write / flush.
RefineSend(r) ==
    /\ pc[r] = "refine"
    /\ n_refine' = [n_refine EXCEPT ![r] = @ + 1]
    /\ \/ \* Popen raises: _ensure_mcp_server raises OrchestrationError
          /\ NeedsStart
          /\ RefineFailed(r)
          /\ UNCHANGED <<msg_id, reader, mcp_process, message_id, started, procs, crashes>>
       \/ LET procs1 == IF NeedsStart THEN Append(procs, NewWorker) ELSE procs
              w == IF NeedsStart THEN Len(procs) + 1 ELSE mcp_process
              id == get_next_message_id
          IN /\ started' = (started \/ NeedsStart)
             /\ message_id' = id
             /\ \/ \* request written and flushed
                   /\ procs' = [procs1 EXCEPT ![w].inbox =
                                   Append(@, [id |-> id, xml |-> xml_content[r]])]
                   /\ mcp_process' = w
                   /\ msg_id' = [msg_id EXCEPT ![r] = id]
                   /\ reader' = [reader EXCEPT ![r] = w]
                   /\ Continue(r, "refine_wait")
                   /\ UNCHANGED <<crashes, refine_failed_at, step_times>>
                \/ \* the worker exited after the liveness check: BrokenPipeError
                   /\ crashes < MaxCrashes
                   /\ crashes' = crashes + 1
                   /\ procs' = [procs1 EXCEPT ![w].alive = FALSE]
                   /\ mcp_process' = NoProcess
                   /\ RefineFailed(r)
                   /\ msg_id' = msg_id
                   /\ reader' = reader
    /\ UNCHANGED <<max_iterations, ttlVars, reviewVars, inputVars, streamVars, records, request_id, storeVars, iteration, review_result, refinement_attempts,
                   xml_content, svg_filename, xml_filename, result, n_validate,
                   n_to_svg, converted, n_save, review_err_at, foreign_reply>>

\* The rest of _refine_via_mcp: the awaited readline returns a line or EOF, or
\* wait_for times out; then the response is parsed (its id is never compared).
RefineRecv(r) ==
    /\ pc[r] = "refine_wait"
    /\ LET w == reader[r] IN
       \/ \* a response line is read
          /\ procs[w].outbox # << >>
          /\ LET resp == Head(procs[w].outbox) IN
               /\ procs' = [procs EXCEPT ![w].outbox = Tail(@)]
               /\ IF resp.ok
                  THEN /\ xml_content' = [xml_content EXCEPT ![r] = resp.xml]
                       /\ Store(r, "refinement", iteration[r])
                       /\ refinement_attempts' =
                            [refinement_attempts EXCEPT ![HistoryOwner(r, resp)] =
                              Append(@, HistoryEntry(iteration[r], review_result[r]))]
                       /\ foreign_reply' = [foreign_reply EXCEPT ![r] = @ \/ resp.id # msg_id[r]]
                       /\ Goto(r, LoopTop(iteration[r], review_result[r]))
                       /\ UNCHANGED refine_failed_at
                  ELSE /\ RefineFailed(r)
                       /\ UNCHANGED <<xml_content, refinement_attempts, foreign_reply,
                                      records>>
          /\ UNCHANGED mcp_process
       \/ \* zero-byte read: the worker closed its stdout
          /\ procs[w].outbox = << >>
          /\ ~procs[w].alive
          /\ mcp_process' = NoProcess
          /\ RefineFailed(r)
          /\ UNCHANGED <<procs, xml_content, refinement_attempts, foreign_reply, records>>
       \/ \* asyncio.TimeoutError: the executor thread stays blocked in readline
          /\ ReadHasTimeout
          /\ procs' = [procs EXCEPT ![w].orphans = @ + 1]
          /\ RefineFailed(r)
          /\ UNCHANGED <<mcp_process, xml_content, refinement_attempts, foreign_reply,
                         records>>
    /\ msg_id' = [msg_id EXCEPT ![r] = 0]
    /\ reader' = [reader EXCEPT ![r] = NoProcess]
    /\ UNCHANGED <<max_iterations, ttlVars, reviewVars, inputVars, streamVars, request_id, storeVars, iteration, review_result, svg_filename,
                   xml_filename, result, message_id, started, crashes, callVars>>

\* The worker answers the oldest request on its stdin.
WorkerRespond(w) ==
    /\ w \in DOMAIN procs
    /\ procs[w].alive
    /\ procs[w].inbox # << >>
    /\ \E ok \in BOOLEAN :
         procs' = [procs EXCEPT ![w].inbox = Tail(@),
                                ![w].outbox = Append(@, Response(Head(procs[w].inbox), ok))]
    /\ UNCHANGED <<max_iterations, ttlVars, reviewVars, inputVars, streamVars, ctxVars, storeVars, runVars, msg_id, reader, mcp_process, message_id,
                   started, crashes, foreign_reply, refine_failed_at, files, histVars>>

\* The worker process exits.
WorkerCrash(w) ==
    /\ w \in DOMAIN procs
    /\ procs[w].alive
    /\ crashes < MaxCrashes
    /\ crashes' = crashes + 1
    /\ procs' = [procs EXCEPT ![w].alive = FALSE]
    /\ UNCHANGED <<max_iterations, ttlVars, reviewVars, inputVars, streamVars, ctxVars, storeVars, runVars, msg_id, reader, mcp_process, message_id,
                   started, foreign_reply, refine_failed_at, files, histVars>>

\* An executor thread left behind by a timed-out call finishes its readline:
\* it takes the next line (its result is discarded) or sees EOF.
OrphanRead(w) ==
    /\ w \in DOMAIN procs
    /\ procs[w].orphans > 0
    /\ \/ /\ procs[w].outbox # << >>
          /\ procs' = [procs EXCEPT ![w].outbox = Tail(@), ![w].orphans = @ - 1]
       \/ /\ procs[w].outbox = << >>
          /\ ~procs[w].alive
          /\ procs' = [procs EXCEPT ![w].orphans = @ - 1]
    /\ UNCHANGED <<max_iterations, ttlVars, reviewVars, inputVars, streamVars, ctxVars, storeVars, runVars, msg_id, reader, mcp_process, message_id,
                   started, crashes, foreign_reply, refine_failed_at, files, histVars>>

\* ------------------------------------------------ conversion and storage
\* FileManager.get_file(filename) returns bytes (TRUE) or raises not found (FALSE).
get_file_found(filename) == filename \in files

\* OrchestrationResult(...) as constructed at the end of the try block.
OrchestrationResult(r, svg, xml) ==
    [svg_filename |-> svg, xml_filename |-> xml,
     review_score |-> review_result[r].score, iterations |-> iteration[r],
     step_times |-> step_times'[r],
     refinement_attempts |-> refinement_attempts[r]]

\* FileManager.get_file(filename): the bytes read, or the not-found error.
get_file(filename) ==
    IF get_file_found(filename) THEN file_bytes[filename] ELSE FileNotFound

\* Variant: the XML file holds the first draft, not the reviewed artifact.
SavedBytesFirstDraft(r, fmt) ==
    IF fmt = "svg" THEN Encode(diagram_svg'[r]) ELSE Encode(<<r, 1>>)

\* The content argument of the save_file call for format fmt:
\* diagram_svg.encode("utf-8") and xml_content.encode("utf-8").
SavedBytes(r, fmt) ==
    IF fmt = "svg" THEN Encode(diagram_svg'[r]) ELSE Encode(xml_content[r])

\* Step 5, reached without suspension when to_svg has returned: the two save_file
\* calls (save_file has no await inside) and the construction of the result.
Storage(r) ==
    LET svg == FileName(r, "svg")
        xml == FileName(r, "xml")
    IN \/ \* save_file(svg) raises FileOperationError
          /\ n_save' = [n_save EXCEPT ![r] = @ + 1]
          /\ step_times' = [step_times EXCEPT ![r] = @ \cup {"conversion"}]
          /\ Throw(r, "FileOperationError", NoFile, NoFile, files)
          /\ UNCHANGED <<svg_filename, xml_filename, result, file_bytes, ttl_task>>
       \/ \* save_file(svg) returns, save_file(xml) raises FileOperationError
          /\ n_save' = [n_save EXCEPT ![r] = @ + 2]
          /\ svg_filename' = [svg_filename EXCEPT ![r] = svg]
          /\ file_bytes' = [file_bytes EXCEPT ![svg] = SavedBytes(r, "svg")]
          /\ ttl_task' = [ttl_task EXCEPT ![svg] = "sleeping"]
          /\ step_times' = [step_times EXCEPT ![r] = @ \cup {"conversion"}]
          /\ Throw(r, "FileOperationError", svg, NoFile, files \cup {svg})
          /\ UNCHANGED <<xml_filename, result>>
       \/ \* both saved: return result
          /\ n_save' = [n_save EXCEPT ![r] = @ + 2]
          /\ svg_filename' = [svg_filename EXCEPT ![r] = svg]
          /\ xml_filename' = [xml_filename EXCEPT ![r] = xml]
          /\ files' = files \cup {svg, xml}
          /\ step_times' = [step_times EXCEPT ![r] = @ \cup {"conversion", "storage"}]
          /\ file_bytes' = [file_bytes EXCEPT ![svg] = SavedBytes(r, "svg"),
                                               ![xml] = SavedBytes(r, "xml")]
          /\ ttl_task' = [ttl_task EXCEPT ![svg] = "sleeping", ![xml] = "sleeping"]
          /\ result' = [result EXCEPT ![r] = OrchestrationResult(r, svg, xml)]
          /\ pc' = [pc EXCEPT ![r] = "done"]
          /\ UNCHANGED <<exc, raised, raised_msg, raised_wraps, deleted, delete_failed>>

\* Variant: a failed conversion is swallowed and the run goes on to storage.
ConversionRaisesSwallowed(r) == Storage(r)

\* to_svg raises RenderingError, which leaves the try block.
ConversionRaises(r) ==
    /\ Throw(r, "RenderingError", NoFile, NoFile, files)
    /\ UNCHANGED <<n_save, svg_filename, xml_filename, result, file_bytes, step_times>>

\* The completeness check (cell_count against expected_cells // 2, warning
\* only), then step 4: diagram_svg = await self.image_converter.to_svg(xml_content),
\* then step 5 or the exception handler. counts: the cell counts the final
\* artifact may have.
ConversionWith(r, counts) ==
    /\ pc[r] = "conversion"
    /\ n_to_svg' = [n_to_svg EXCEPT ![r] = @ + 1]
    /\ \E cells \in counts :
         /\ cell_count' = [cell_count EXCEPT ![r] = cells]
         /\ thin_warned' = [thin_warned EXCEPT ![r] = Thin(cells)]
         /\ IF ~validate_xml(cells)
            THEN \* validate_xml raises RenderingError
                 /\ UNCHANGED <<converted, diagram_svg, records, ttl_task>>
                 /\ ConversionRaises(r)
            ELSE \/ /\ converted' = [converted EXCEPT ![r] = TRUE]
                    /\ diagram_svg' = [diagram_svg EXCEPT ![r] = Render(xml_content[r])]
                    /\ Store(r, "conversion", 0)
                    /\ Storage(r)
                 \/ /\ UNCHANGED <<converted, diagram_svg, records, ttl_task>>
                    /\ ConversionRaises(r)
    /\ UNCHANGED <<max_iterations, expired, fm_call, reviewVars, user_input, n_analyze, streamVars, request_id, iteration, review_result, refinement_attempts,
                   xml_content, chanVars, n_validate, n_refine, review_err_at>>

Conversion(r) == ConversionWith(r, {expected_cells})

\* ------------------------------------------------------- specifications
RunStep(r) ==
    \/ Planning(r)
    \/ Generation(r)
    \/ Review(r)
    \/ RefineSend(r)
    \/ RefineRecv(r)
    \/ Conversion(r)

WorkerStep(w) ==
    \/ WorkerRespond(w)
    \/ WorkerCrash(w)
    \/ OrphanRead(w)

\* No more workers are started than refine calls are made.
WorkerIds == 1..(Cardinality(Runs) * MaxIterBound)

Next ==
    \/ \E r \in Runs : RunStep(r)
    \/ \E w \in WorkerIds : WorkerStep(w)

Spec == Init /\ [][Next]_vars

\* Every coroutine of the event loop is eventually resumed: each collaborator
\* call of a run returns or raises (the readline is bounded by its timeout).
FairSpec == Spec /\ \A r \in Runs : WF_vars(RunStep(r))

\* One request served with the settings from 1 up to the default: the review
\* service returns the scores of the documented scenarios and band boundaries.
SoloRuns == {1}
SoloScores == {50, 60, 75, 88, 95}
SoloSettings == 1..DefaultMaxIterations

SoloInit ==
    /\ max_iterations \in SoloSettings
    /\ Constructed
    /\ NoStream
    /\ SameTopic

SoloReview(r) == ReviewWith(r, SoloScores)

SoloRunStep(r) ==
    \/ Planning(r)
    \/ Generation(r)
    \/ SoloReview(r)
    \/ RefineSend(r)
    \/ RefineRecv(r)
    \/ Conversion(r)

SoloNext ==
    \/ \E r \in SoloRuns : SoloRunStep(r)
    \/ \E w \in WorkerIds : WorkerStep(w)

SoloSpec == SoloInit /\ [][SoloNext]_vars

\* ------------------------------------------- streaming endpoint (SSE)
\* iterations: int = Field(..., ge=1, le=3) of DiagramResponse
MaxResponseIterations == 3

\* The settings of the streamed run: review_max_iterations is not validated.
StreamSettings == 1..(MaxResponseIterations + 1)

\* ProgressEvent.type and ProgressEvent.stage are Literal fields.
EventTypes == {"progress", "complete", "error"}
EventStages == {"planning", "generation", "review", "conversion", "storage"}

\* pydantic validation of ProgressEvent(type, stage, progress).
ProgressEventValid(ev) ==
    /\ ev.type \in EventTypes
    /\ ev.stage \in EventStages
    /\ ev.progress >= 0 /\ ev.progress <= 100

\* pydantic validation of DiagramResponse(review_score, iterations, ...).
DiagramResponseValid(res) ==
    /\ res.review_score >= 0 /\ res.review_score <= 100
    /\ res.iterations >= 1 /\ res.iterations <= MaxResponseIterations
    /\ StepTimeKeys \subseteq res.step_times

\* stage_progress: the percentage band of each stage.
stage_progress(stage) ==
    CASE stage = "planning" -> <<0, 20>>
      [] stage = "generation" -> <<20, 50>>
      [] stage = "review" -> <<50, 75>>
      [] stage = "conversion" -> <<75, 90>>
      [] stage = "storage" -> <<90, 100>>

\* The initial progress event.
InitialEvent == [type |-> "progress", stage |-> "planning", progress |-> 0]

\* Variant: the review stage is reported at 45 percent.
stagesReviewEarly ==
    << <<"planning", 20>>, <<"generation", 50>>, <<"review", 45>>,
       <<"conversion", 90>>, <<"storage", 99>> >>

\* stages: the (stage, progress_pct) pairs emitted after orchestrate returned.
stages ==
    << <<"planning", 20>>, <<"generation", 50>>, <<"review", 75>>,
       <<"conversion", 90>>, <<"storage", 99>> >>

StageEvent(k) == [type |-> "progress", stage |-> stages[k][1], progress |-> stages[k][2]]

\* completion_event
CompletionEvent == [type |-> "complete", stage |-> "storage", progress |-> 100]

\* error_event of both except clauses of progress_stream
ErrorEvent == [type |-> "error", stage |-> "unknown", progress |-> 0]

\* The generator yields ev and is suspended at next.
Yield(r, ev, next) ==
    /\ events' = [events EXCEPT ![r] = Append(@, ev)]
    /\ stream_pc' = [stream_pc EXCEPT ![r] = next]

\* An except clause of progress_stream: the error event is constructed and
\* yielded; a ValidationError raised while constructing it leaves the
\* generator, which ends the stream without a further event.
StreamHandler(r) ==
    IF ProgressEventValid(ErrorEvent)
    THEN Yield(r, ErrorEvent, "closed")
    ELSE /\ stream_pc' = [stream_pc EXCEPT ![r] = "crashed"]
         /\ UNCHANGED events

\* Inside the try block: construct ev and yield it.
Emit(r, ev, next) ==
    IF ProgressEventValid(ev) THEN Yield(r, ev, next) ELSE StreamHandler(r)

\* The generator is started: the initial event is yielded.
StreamOpen(r) ==
    /\ stream_pc[r] = "start"
    /\ Emit(r, InitialEvent, "awaiting")
    /\ UNCHANGED <<max_iterations, ttlVars, runVars, chanVars, files, histVars, storeVars, ctxVars,
                   inputVars, reviewVars>>

\* result = await orchestrator.orchestrate(...): the steps of the run.
StreamRunStep(r) ==
    /\ stream_pc[r] = "awaiting"
    /\ RunStep(r)

\* orchestrate returned: DiagramResponse is built from the result.
StreamResult(r) ==
    /\ stream_pc[r] = "awaiting"
    /\ pc[r] = "done"
    /\ IF DiagramResponseValid(result[r])
       THEN /\ stream_pc' = [stream_pc EXCEPT ![r] = "stages"]
            /\ UNCHANGED events
       ELSE StreamHandler(r)
    /\ UNCHANGED <<max_iterations, ttlVars, runVars, chanVars, files, histVars, storeVars, ctxVars,
                   inputVars, reviewVars>>

\* One pass of `for stage, status_msg, progress_pct in stages`, or the
\* completion event after the last pass.
StreamStage(r) ==
    /\ stream_pc[r] = "stages"
    /\ LET k == Len(events[r]) IN
         IF k <= Len(stages)
         THEN Emit(r, StageEvent(k), "stages")
         ELSE Emit(r, CompletionEvent, "closed")
    /\ UNCHANGED <<max_iterations, ttlVars, runVars, chanVars, files, histVars, storeVars, ctxVars,
                   inputVars, reviewVars>>

\* orchestrate raised OrchestrationError: except OrchestrationError.
StreamFail(r) ==
    /\ stream_pc[r] = "awaiting"
    /\ pc[r] = "failed"
    /\ StreamHandler(r)
    /\ UNCHANGED <<max_iterations, ttlVars, runVars, chanVars, files, histVars, storeVars, ctxVars,
                   inputVars, reviewVars>>

StreamInit ==
    /\ max_iterations \in StreamSettings
    /\ Constructed
    /\ SameTopic
    /\ stream_pc = [r \in Runs |-> IF r \in SoloRuns THEN "start" ELSE "off"]
    /\ events = [r \in Runs |-> << >>]

StreamNext ==
    \/ \E r \in SoloRuns :
         \/ StreamOpen(r)
         \/ StreamRunStep(r)
         \/ StreamResult(r)
         \/ StreamStage(r)
         \/ StreamFail(r)
    \/ \E w \in WorkerIds : WorkerStep(w)

StreamSpec == StreamInit /\ [][StreamNext]_vars

\* ------------------------------------------- varied topics and artifacts
\* One run, its topic drawn from Inputs and its final artifact's cell count
\* from CellCounts.
InputInit ==
    /\ max_iterations \in SoloSettings
    /\ Constructed
    /\ NoStream
    /\ user_input \in {[r \in Runs |-> IF r \in SoloRuns THEN s ELSE Topic] : s \in Inputs}

InputConversion(r) == ConversionWith(r, CellCounts)

InputRunStep(r) ==
    \/ Planning(r)
    \/ Generation(r)
    \/ Review(r)
    \/ RefineSend(r)
    \/ RefineRecv(r)
    \/ InputConversion(r)

InputNext ==
    \/ \E r \in SoloRuns : InputRunStep(r)
    \/ \E w \in WorkerIds : WorkerStep(w)

InputSpec == InputInit /\ [][InputNext]_vars

\* ------------------------------------- a storage call that never returns
\* to_svg returned and save_file is entered, but write_bytes never returns:
\* save_file has no await and no deadline, so the run stays in the call.
StorageBlocks(r) ==
    /\ pc[r] = "conversion"
    /\ n_to_svg' = [n_to_svg EXCEPT ![r] = @ + 1]
    /\ converted' = [converted EXCEPT ![r] = TRUE]
    /\ diagram_svg' = [diagram_svg EXCEPT ![r] = Render(xml_content[r])]
    /\ Store(r, "conversion", 0)
    /\ step_times' = [step_times EXCEPT ![r] = @ \cup {"conversion"}]
    /\ n_save' = [n_save EXCEPT ![r] = @ + 1]
    /\ cell_count' = [cell_count EXCEPT ![r] = expected_cells]
    /\ thin_warned' = [thin_warned EXCEPT ![r] = Thin(expected_cells)]
    /\ pc' = [pc EXCEPT ![r] = "storage_blocked"]
    /\ UNCHANGED <<max_iterations, ttlVars, reviewVars, user_input, n_analyze, request_id, streamVars, iteration, review_result,
                   refinement_attempts, xml_content, svg_filename, xml_filename,
                   result, handlerVars, file_bytes, chanVars, n_validate, n_refine,
                   review_err_at>>

HangNext ==
    \/ \E r \in SoloRuns : SoloRunStep(r)
    \/ \E r \in SoloRuns : StorageBlocks(r)
    \/ \E w \in WorkerIds : WorkerStep(w)

\* Every step the run can take is eventually taken.
HangFairSpec ==
    /\ SoloInit
    /\ [][HangNext]_vars
    /\ \A r \in SoloRuns : WF_vars(SoloRunStep(r) \/ StorageBlocks(r))

\* ------------------------------------------------------------ properties
Handles(r) == {svg_filename[r], xml_filename[r]} \ {NoFile}

\* C1 (as stated): in every finished run the number of ReviewAgent.validate calls
\* is at most max_iterations and the number of _refine_via_mcp calls is at most
\* max_iterations - 1, for every configured max_iterations.
C1_CallBounds ==
    \A r \in Runs :
      pc[r] \in Terminal =>
        /\ n_validate[r] <= max_iterations
        /\ n_refine[r] <= max_iterations - 1

\* C1 (amended): at every moment of every run, when max_iterations >= 1 the
\* number of validate calls is at most max_iterations and the number of
\* _refine_via_mcp calls is at most max_iterations - 1; when max_iterations <= 0
\* the run makes no validate call and no _refine_via_mcp call.
C1_CallBoundsAmended ==
    \A r \in Runs :
      /\ n_validate[r] <= Max(max_iterations, 0)
      /\ n_refine[r] <= Max(max_iterations - 1, 0)

\* A finished run that used every review and every refinement it is allowed.
C1_Witness ==
    \E r \in Runs :
      /\ pc[r] \in Terminal
      /\ max_iterations >= 2
      /\ n_validate[r] = max_iterations
      /\ n_refine[r] = max_iterations - 1

\* C2: a run that ends exceptionally raised OrchestrationError and returned no
\* result, whatever exception left the try block and whether or not a cleanup
\* deletion failed; a run that returns raised nothing and holds a complete
\* result; a run still in progress has neither raised nor returned.
C2_SingleErrorType ==
    \A r \in Runs :
      /\ raised[r] \in {"none", "OrchestrationError"}
      /\ pc[r] = "failed" => raised[r] = "OrchestrationError" /\ result[r] = NoResult
      /\ pc[r] = "done" =>
           /\ raised[r] = "none"
           /\ result[r].svg_filename # NoFile
           /\ result[r].xml_filename # NoFile
           /\ result[r].iterations >= 1
           /\ result[r].review_score >= 0
      /\ pc[r] \notin Terminal => raised[r] = "none" /\ result[r] = NoResult

\* A run failed in storage and the deletion of its saved file failed too.
C2_Witness ==
    \E r \in Runs :
      /\ pc[r] = "failed"
      /\ exc[r] = "FileOperationError"
      /\ delete_failed[r] # {}

\* C3 (as stated): once a run has failed in storage after saving a file, get_file
\* on every handle the run obtained fails with not-found.
C3_CleanupRemovesAll ==
    \A r \in Runs :
      (pc[r] = "failed" /\ exc[r] = "FileOperationError" /\ Handles(r) # {}) =>
        \A h \in Handles(r) : ~get_file_found(h)

\* C3 (amended): once a run has failed in storage after saving a file, delete_file
\* has been called on every handle the run obtained, and get_file fails with
\* not-found on every handle whose deletion did not itself fail.
C3_CleanupAttemptsAll ==
    \A r \in Runs :
      (pc[r] = "failed" /\ exc[r] = "FileOperationError" /\ Handles(r) # {}) =>
        \A h \in Handles(r) :
          /\ h \in deleted[r]
          /\ h \notin delete_failed[r] => ~get_file_found(h)

\* A run failed in storage after saving its SVG, and the cleanup removed it.
C3_Witness ==
    \E r \in Runs :
      /\ pc[r] = "failed"
      /\ exc[r] = "FileOperationError"
      /\ svg_filename[r] # NoFile
      /\ delete_failed[r] = {}
      /\ ~get_file_found(svg_filename[r])

\* C4: a run has called save_file, or a file of the run exists, only if to_svg
\* returned successfully in that run.
C4_SaveOnlyAfterConversion ==
    \A r \in Runs :
      (n_save[r] > 0 \/ get_file_found(FileName(r, "svg")) \/ get_file_found(FileName(r, "xml")))
        => converted[r]

\* One run saved its files after a successful conversion while the conversion of
\* another run failed.
C4_Witness ==
    \E r, q \in Runs :
      /\ n_save[r] > 0 /\ converted[r]
      /\ exc[q] = "RenderingError" /\ n_save[q] = 0

\* C5: no two refine calls are awaiting a response from the same worker.
C5_OneRequestInFlight ==
    \A r, q \in Runs :
      (r # q /\ pc[r] = "refine_wait" /\ pc[q] = "refine_wait") => reader[r] # reader[q]

\* C6: every refine call that returned successfully returned the response that
\* carries its own request id.
C6_ReplyMatchesRequest == \A r \in Runs : ~foreign_reply[r]

\* C7: every run eventually returns a result or raises.
C7_Terminates == \A r \in Runs : <>(pc[r] \in Terminal)

\* A run returned after going round the review/refinement loop.
C7_Witness ==
    \E r \in Runs : pc[r] = "done" /\ iteration[r] >= 2 /\ n_refine[r] >= 1

C9_LaterReviewFailureAborts ==
    \A r \in Runs :
      review_err_at[r] >= 2 =>
        /\ pc[r] = "failed"
        /\ raised[r] = "OrchestrationError"
        /\ n_to_svg[r] = 0
        /\ n_save[r] = 0

\* C10: a run whose validate call raised ReviewError ends by raising an
\* OrchestrationError that reports the failed quality review, not by returning.
C10_ReviewErrorRaises ==
    \A r \in Runs :
      (review_err_at[r] # 0 /\ pc[r] \in Terminal) =>
        /\ pc[r] = "failed"
        /\ raised[r] = "OrchestrationError"
        /\ raised_msg[r] = "Quality review failed"

\* C11: when the _refine_via_mcp call of iteration i < max_iterations raised, the
\* run makes no further validate or refine call (i of each were made), its review
\* result is the unapproved one of iteration i, its history holds only the i - 1
\* successful refinements, and it goes on to conversion and storage (it can fail
\* only there; a returned result reports iterations = i and the score of
\* iteration i); and the failing call and every later step leave the artifact,
\* the review result and the history of that run as they were.
C11_RefineFailureEndsLoop ==
    /\ [](\A r \in Runs :
            refine_failed_at[r] # 0 =>
              /\ refine_failed_at[r] < max_iterations
              /\ iteration[r] = refine_failed_at[r]
              /\ n_validate[r] = refine_failed_at[r]
              /\ n_refine[r] = refine_failed_at[r]
              /\ review_result[r].iteration = refine_failed_at[r]
              /\ review_result[r].feedback = "llm"
              /\ Len(refinement_attempts[r]) = refine_failed_at[r] - 1
              /\ pc[r] \in {"conversion", "done", "failed"}
              /\ pc[r] = "failed" => exc[r] \in {"RenderingError", "FileOperationError"}
              /\ pc[r] = "done" =>
                   /\ result[r].iterations = refine_failed_at[r]
                   /\ result[r].review_score = review_result[r].score
                   /\ result[r].refinement_attempts = refinement_attempts[r])
    /\ [][\A r \in Runs :
            refine_failed_at'[r] # 0 =>
              /\ xml_content'[r] = xml_content[r]
              /\ review_result'[r] = review_result[r]
              /\ refinement_attempts'[r] = refinement_attempts[r]]_vars

\* A refinement failed on iteration 1 and the run returned the artifact and the
\* score of iteration 1.
C11_Witness ==
    \E r \in Runs :
      /\ refine_failed_at[r] = 1
      /\ pc[r] = "done"
      /\ xml_content[r] = <<r, 1>>
      /\ result[r].refinement_attempts = << >>

\* C12: when the validate call of iteration i returned an approved review, the run
\* makes no further validate call and no refine call after it (i reviews and the
\* i - 1 successful refinements that preceded them are all), it goes on to
\* conversion, and a returned result reports iterations = i and that review's
\* score; so approval on iteration 1 means one review and zero refinement calls.
C12_ApprovalExitsLoop ==
    \A r \in Runs :
      (review_result[r].approved /\ review_result[r].feedback = "llm") =>
        /\ iteration[r] = review_result[r].iteration
        /\ n_validate[r] = review_result[r].iteration
        /\ n_refine[r] = review_result[r].iteration - 1
        /\ Len(refinement_attempts[r]) = review_result[r].iteration - 1
        /\ refine_failed_at[r] = 0
        /\ review_err_at[r] = 0
        /\ pc[r] \in {"conversion", "done", "failed"}
        /\ pc[r] = "done" =>
             /\ result[r].iterations = review_result[r].iteration
             /\ result[r].review_score = review_result[r].score

\* One run was approved on iteration 1 and returned without any refinement call,
\* another was approved on iteration 2 and returned after one.
C12_Witness ==
    \E r, q \in Runs :
      /\ pc[r] = "done" /\ review_result[r].approved /\ review_result[r].feedback = "llm"
      /\ result[r].iterations = 1 /\ n_refine[r] = 0
      /\ pc[q] = "done" /\ review_result[q].approved /\ review_result[q].feedback = "llm"
      /\ result[q].iterations = 2 /\ n_refine[q] = 1

\* The scores validate returned to run r so far, by iteration (for a run none of
\* whose validate calls raised): those of the refined iterations are in the
\* history, the latest is in review_result.
ScoresSeen(r) ==
    [k \in 1..review_result[r].iteration |->
        IF k <= Len(refinement_attempts[r]) THEN refinement_attempts[r][k].score
        ELSE review_result[r].score]

\* Scenario B of the specification: the scores of iterations 1, 2, 3.
ScenarioB == <<60, 75, 88>>

\* C13: with max_iterations = 3, a run whose reviews are scored 60, 75, 88 in this
\* order and whose refinements all succeed returns after exactly 2 refinement
\* calls with iterations = 3, final score 88 and a refinement history of length 2.
C13_ScenarioBThreeIterations ==
    \A r \in Runs :
      ( /\ max_iterations = DefaultMaxIterations
        /\ pc[r] = "done"
        /\ review_err_at[r] = 0
        /\ refine_failed_at[r] = 0
        /\ \A k \in DOMAIN ScoresSeen(r) : ScoresSeen(r)[k] = ScenarioB[k] )
      =>
        /\ n_refine[r] = 2
        /\ result[r].iterations = 3
        /\ result[r].review_score = 88
        /\ Len(result[r].refinement_attempts) = 2

\* C14: for max_iterations >= 1 and a fixed iteration, _determine_approval is
\* non-decreasing in the score: of two reviews made at the same iteration, if the
\* one with the lower (or equal) score is approved, so is the other.
C14_ApprovalMonotone ==
    max_iterations >= 1 =>
      \A r, q \in Runs :
        ( /\ review_result[r].feedback = "llm"
          /\ review_result[q].feedback = "llm"
          /\ review_result[r].iteration = review_result[q].iteration
          /\ review_result[r].score <= review_result[q].score
          /\ review_result[r].approved )
        => review_result[q].approved

\* C15: a review with a score from 70 to 89 is never approved by the policy,
\* whatever its iteration.
C15_MediumScoreNeverApproved ==
    \A r \in Runs :
      ( /\ review_result[r].feedback = "llm"
        /\ review_result[r].score >= 70
        /\ review_result[r].score < 90 )
      => ~review_result[r].approved

\* C16: a review with a score below 70 is approved exactly when its iteration is
\* max_iterations.
C16_LowScoreApprovedOnlyAtLast ==
    \A r \in Runs :
      (review_result[r].feedback = "llm" /\ review_result[r].score < 70) =>
        (review_result[r].approved <=> review_result[r].iteration = max_iterations)

\* C17: a run whose generate call raised (failure or deadline) has raised an
\* OrchestrationError reporting the generation stage, has made no validate,
\* refine, to_svg, save_file or delete_file call, and holds no storage handle.
C17_GenerationFailureStopsRun ==
    \A r \in Runs :
      exc[r] = "GenerationError" =>
        /\ pc[r] = "failed"
        /\ raised[r] = "OrchestrationError"
        /\ raised_msg[r] = "Diagram generation failed"
        /\ n_validate[r] = 0
        /\ n_refine[r] = 0
        /\ n_to_svg[r] = 0
        /\ n_save[r] = 0
        /\ deleted[r] = {}
        /\ Handles(r) = {}
        /\ ~get_file_found(FileName(r, "svg"))
        /\ ~get_file_found(FileName(r, "xml"))

\* The generation of one run failed while another run stored its files.
C17_Witness ==
    \E r, q \in Runs :
      /\ exc[r] = "GenerationError" /\ pc[r] = "failed"
      /\ pc[q] = "done" /\ Handles(q) # {}

\* C18: delete_file is called only by a failed run and only with handles that
\* run's own save_file calls returned; a run that failed before anything was
\* stored (planning, generation, review loop, conversion) and a run that returned
\* called no delete_file; a run whose conversion failed called no save_file.
C18_DeleteOnlyOwnHandles ==
    \A r \in Runs :
      /\ deleted[r] \subseteq Handles(r)
      /\ deleted[r] # {} => pc[r] = "failed" /\ exc[r] = "FileOperationError"
      /\ pc[r] = "done" => deleted[r] = {}
      /\ (pc[r] = "failed" /\ Handles(r) = {}) => deleted[r] = {}
      /\ exc[r] \in {"PlanningError", "GenerationError", "OrchestrationError",
                      "RenderingError"} => deleted[r] = {} /\ n_save[r] = 0

\* One run failed in storage and deleted its SVG while the files of another,
\* successful run stayed; a failed conversion elsewhere deletes nothing.
C18_Witness ==
    \E r, q \in Runs :
      /\ pc[r] = "failed" /\ deleted[r] = {FileName(r, "svg")}
      /\ pc[q] = "done" /\ get_file_found(FileName(q, "svg"))

\* C19: the OrchestrationError of a failed run carries a tag naming the failed
\* stage: the errors of two runs that failed in different stages (different
\* collaborator exceptions) carry different tags.  The only stage information an
\* OrchestrationError carries is its message prefix.
C19_StageTagsDistinct ==
    \A r, q \in Runs :
      (pc[r] = "failed" /\ pc[q] = "failed" /\ exc[r] # exc[q]) =>
        raised_msg[r] # raised_msg[q]

\* C20: when a cleanup deletion of a failed run raised, delete_file was still
\* called on every handle the run obtained, the deletions that did not raise
\* removed their files, and the run raised the OrchestrationError of the generic
\* handler describing the original failure (the save_file error), not the
\* deletion failure.
C20_CleanupFailureOnlyLogged ==
    \A r \in Runs :
      delete_failed[r] # {} =>
        /\ pc[r] = "failed"
        /\ Handles(r) \subseteq deleted[r]
        /\ \A h \in deleted[r] \ delete_failed[r] : ~get_file_found(h)
        /\ raised[r] = "OrchestrationError"
        /\ raised_msg[r] = RaisedMessage(exc[r])
        /\ raised_wraps[r] = exc[r]
        /\ exc[r] = "FileOperationError"
        /\ result[r] = NoResult

\* The deletion of the saved SVG failed during the cleanup of a failed run: the
\* file is still there and the run reported the storage failure.
C20_Witness ==
    \E r \in Runs :
      /\ pc[r] = "failed"
      /\ delete_failed[r] = {FileName(r, "svg")}
      /\ get_file_found(FileName(r, "svg"))
      /\ raised_wraps[r] = "FileOperationError"

\* C21: after a run has returned (no file expires in the model), get_file on the
\* result's svg_filename returns the bytes of the SVG text to_svg returned, and
\* get_file on its xml_filename returns the bytes of the run's final artifact,
\* which is the artifact the converter rendered.
C21_StoredBytesRoundTrip ==
    \A r \in Runs :
      pc[r] = "done" =>
        /\ get_file(result[r].svg_filename) = Encode(diagram_svg[r])
        /\ get_file(result[r].xml_filename) = Encode(xml_content[r])
        /\ diagram_svg[r] = Render(xml_content[r])

\* A run returned after a refinement: its XML file holds the refined artifact.
C21_Witness ==
    \E r \in Runs :
      /\ pc[r] = "done"
      /\ n_refine[r] >= 1
      /\ xml_content[r] # <<r, 1>>
      /\ get_file(result[r].xml_filename) = Encode(xml_content[r])

\* Run r's step writes a request: its refine call passes from the liveness
\* check to the awaited readline.
Writes(r) == pc[r] = "refine" /\ pc'[r] = "refine_wait"

\* C25: a request is only ever written to a worker that is running and is the
\* current one: when the channel was reported lost (mcp_process is None) or the
\* liveness check sees the current worker exited, the refine call starts a new
\* worker and writes to that one; a refine call ends in success or in the
\* channel's OrchestrationError, which only ends the loop.
C25_RestartBeforeWrite ==
    [][\A r \in Runs :
         /\ Writes(r) =>
               LET w == reader'[r] IN
                 /\ w \in DOMAIN procs'
                 /\ procs'[w].alive
                 /\ mcp_process' = w
                 /\ procs'[w].inbox # << >>
                 /\ w \in DOMAIN procs =>
                       /\ procs[w].alive
                       /\ mcp_process = w
                       /\ Len(procs'[w].inbox) = Len(procs[w].inbox) + 1
                 /\ (mcp_process = NoProcess \/ ~procs[Max(mcp_process, 1)].alive) =>
                       w \notin DOMAIN procs
         /\ \A w \in DOMAIN procs :
               Len(procs'[w].inbox) > Len(procs[w].inbox) =>
                 procs[w].alive /\ mcp_process = w
         /\ (pc[r] \in {"refine", "refine_wait"} /\ pc'[r] # pc[r]) =>
               /\ pc'[r] \in {"refine_wait", "review", "conversion"}
               /\ exc'[r] = "none"
               /\ refine_failed_at'[r] # refine_failed_at[r] => pc'[r] = "conversion"
      ]_vars

\* The first worker has exited and a request reached its replacement.
C25_Witness ==
    /\ Len(procs) >= 2
    /\ ~procs[1].alive
    /\ mcp_process = 2
    /\ procs[2].alive
    /\ \E r \in Runs : pc[r] = "refine_wait" /\ reader[r] = 2

\* C26: the id counter never decreases, and every request written carries an
\* id above every id handed out before, whichever run sends it and whichever
\* worker receives it; the requests waiting in the workers carry distinct ids.
C26_RequestIdsIncrease ==
    /\ [](\A w, v \in DOMAIN procs :
            \A i \in DOMAIN procs[w].inbox, j \in DOMAIN procs[v].inbox :
              /\ procs[w].inbox[i].id \in 1..message_id
              /\ (procs[w].inbox[i].id = procs[v].inbox[j].id) => (w = v /\ i = j)
              /\ (w = v /\ i < j) => procs[w].inbox[i].id < procs[v].inbox[j].id)
    /\ [][/\ message_id' >= message_id
          /\ \A r \in Runs :
               Writes(r) =>
                 LET inbox == procs'[reader'[r]].inbox IN
                   /\ inbox[Len(inbox)].id = message_id'
                   /\ msg_id'[r] = message_id'
                   /\ message_id' > message_id
       ]_vars

\* Two runs wait for replies to requests with different ids, sent to different
\* workers (the second after a restart).
C26_Witness ==
    /\ Len(procs) >= 2
    /\ \E r, q \in Runs :
         /\ r # q
         /\ pc[r] = "refine_wait" /\ pc[q] = "refine_wait"
         /\ reader[r] = 1 /\ reader[q] = 2
         /\ msg_id[r] < msg_id[q]

\* C27: a returned result has 1 <= iterations <= max_iterations, iterations
\* being the number of validate calls the run made; with max_iterations below
\* 1 no run returns a result.
C27_IterationsInRange ==
    \A r \in Runs :
      /\ pc[r] = "done" =>
            /\ result[r].iterations >= 1
            /\ result[r].iterations <= max_iterations
            /\ result[r].iterations = n_validate[r]
      /\ max_iterations < 1 => pc[r] # "done" /\ result[r] = NoResult

\* A run returned after using every iteration allowed, without approval by
\* score.
C27_Witness ==
    \E r \in Runs :
      /\ pc[r] = "done"
      /\ max_iterations = MaxIterBound
      /\ result[r].iterations = max_iterations
      /\ n_validate[r] = max_iterations

\* C28: a returned result carries an elapsed time for each of the five stages
\* and the run's refinement history, whichever way the loop was left.
C28_ResultCarriesStepTimes ==
    \A r \in Runs :
      pc[r] = "done" =>
        /\ result[r].step_times = StepTimeKeys
        /\ result[r].refinement_attempts = refinement_attempts[r]
        /\ Len(result[r].refinement_attempts) = n_refine[r] - (IF refine_failed_at[r] > 0 THEN 1 ELSE 0)

\* One run returned after its refinement call failed, the other through the
\* first-iteration fallback, both with all five times.
C28_Witness ==
    \E r, q \in Runs :
      /\ pc[r] = "done" /\ pc[q] = "done"
      /\ refine_failed_at[r] > 0
      /\ review_err_at[q] = 1
      /\ result[r].step_times = StepTimeKeys
      /\ result[q].step_times = StepTimeKeys

\* C29: a run's correlation id never changes, and every debug record the run
\* stored (planning, generation, review, refinement, conversion) carries it,
\* whatever the other run stores meanwhile.
C29_RecordsCarryRequestId ==
    /\ [](\A r \in Runs :
            /\ request_id[r] # NoId
            /\ \A rec \in records[r] : rec.request_id = request_id[r])
    /\ [][request_id' = request_id]_vars

\* Both runs have stored records, one of them a refinement record.
C29_Witness ==
    \E r, q \in Runs :
      /\ r # q
      /\ \E rec \in records[r] : rec.step = "refinement"
      /\ \E rec \in records[r] : rec.step = "conversion"
      /\ \E rec \in records[q] : rec.step = "review"
      /\ pc[q] \notin Terminal

\* The locals of run q that make up its request context.
Locals(q) == <<iteration[q], review_result[q], refinement_attempts[q], step_times[q]>>

\* The step is a stage call (or its return) of run q.
Moves(q) ==
    \/ pc'[q] # pc[q]
    \/ n_validate'[q] # n_validate[q]
    \/ n_refine'[q] # n_refine[q]

\* C30: the iteration counter, review result, refinement history and step
\* times of a run change only in that run's own steps, and what is entered
\* comes from that run's own review: another run's step leaves them alone.
C30_LocalsChangeOnlyInOwnSteps ==
    [][\A q \in Runs :
         Locals(q)' # Locals(q) =>
           /\ Moves(q)
           /\ \A r \in Runs \ {q} : ~Moves(r) /\ Locals(r)' = Locals(r)
           /\ iteration'[q] \in {iteration[q], iteration[q] + 1}
           /\ review_result'[q] # review_result[q] =>
                 /\ n_validate'[q] = n_validate[q] + 1
                 /\ review_result'[q].iteration = iteration'[q]
           /\ refinement_attempts'[q] # refinement_attempts[q] =>
                 refinement_attempts'[q] =
                   Append(refinement_attempts[q],
                          [iteration |-> iteration[q], score |-> review_result[q].score])
           /\ step_times[q] \subseteq step_times'[q]
      ]_vars

\* A run entered a refinement in its own history although the reply it read
\* answered the other run's request, while the other run is in its loop.
C30_Witness ==
    \E r, q \in Runs :
      /\ r # q
      /\ foreign_reply[r]
      /\ refinement_attempts[r] # << >>
      /\ iteration[q] >= 1

\* The stream of run r has ended (the generator returned or raised).
StreamEnded(r) == stream_pc[r] \in {"closed", "crashed"}

TerminalEvents(r) == {i \in DOMAIN events[r] : events[r][i].type \in {"complete", "error"}}

\* C22: every progress stream that has ended, after success or after a
\* failure, emitted exactly one terminal event (complete or error), and that
\* event is the last one of the stream.
C22_OneTerminalEventLast ==
    \A r \in Runs :
      StreamEnded(r) =>
        /\ Cardinality(TerminalEvents(r)) = 1
        /\ Len(events[r]) \in TerminalEvents(r)

\* C23: the percentages of a stream's events never decrease, and each
\* progress event's percentage lies inside the band of its stage.
C23_ProgressMonotoneInBand ==
    \A r \in Runs :
      /\ \A i, j \in DOMAIN events[r] :
            i < j => events[r][i].progress <= events[r][j].progress
      /\ \A i \in DOMAIN events[r] :
            events[r][i].type = "progress" =>
              /\ events[r][i].stage \in EventStages
              /\ events[r][i].progress >= stage_progress(events[r][i].stage)[1]
              /\ events[r][i].progress <= stage_progress(events[r][i].stage)[2]

\* A stream ran to its completion event: the initial event, the five stage
\* events and the completion event were emitted.
C23_Witness ==
    \E r \in Runs :
      /\ stream_pc[r] = "closed"
      /\ Len(events[r]) = Len(stages) + 2
      /\ events[r][Len(events[r])].type = "complete"
      /\ events[r][4].stage = "review"

\* C24: whichever call does not respond, the run terminates: it returns a
\* result or raises.
C24_RunAlwaysTerminates ==
    \A r \in SoloRuns : <>(pc[r] \in Terminal)

\* The awaits a run may pass to from each await.
StageOrder ==
    {<<"planning", "generation">>, <<"planning", "failed">>,
     <<"generation", "review">>, <<"generation", "failed">>,
     <<"review", "refine">>, <<"review", "conversion">>,
     <<"refine", "refine_wait">>, <<"refine", "conversion">>,
     <<"refine_wait", "review">>, <<"refine_wait", "conversion">>,
     <<"conversion", "done">>, <<"conversion", "failed">>}

\* C31: the stages of a run are called in the order planning, generation,
\* loop, conversion, storage, each only after the one before has returned;
\* conversion is called at most once and no stage is entered again after the
\* run has left it; in the loop review and refine calls alternate, starting
\* with the review of iteration 1, with consecutive iteration numbers.
C31_StagesInOrder ==
    /\ [](\A r \in Runs :
            /\ n_to_svg[r] <= 1
            /\ n_validate[r] = iteration[r]
            /\ n_refine[r] <= n_validate[r]
            /\ n_validate[r] <= n_refine[r] + 1
            /\ pc[r] \in {"planning", "generation"} =>
                  n_validate[r] = 0 /\ n_refine[r] = 0 /\ n_to_svg[r] = 0
            /\ pc[r] \in {"planning", "generation"} => xml_content[r] = NoXml
            /\ pc[r] \in {"review", "refine", "refine_wait", "conversion", "done"} =>
                  xml_content[r] # NoXml
            /\ pc[r] = "review" => n_refine[r] = n_validate[r] /\ n_to_svg[r] = 0
            /\ pc[r] \in {"refine", "refine_wait"} => n_to_svg[r] = 0
            /\ pc[r] = "refine" => n_validate[r] = n_refine[r] + 1
            /\ n_to_svg[r] = 1 => pc[r] \in Terminal
            /\ n_save[r] > 0 => converted[r])
    /\ [][\A r \in Runs :
            /\ pc'[r] # pc[r] => <<pc[r], pc'[r]>> \in StageOrder
            /\ n_validate'[r] # n_validate[r] =>
                  /\ pc[r] = "review"
                  /\ n_validate'[r] = n_validate[r] + 1
                  /\ iteration'[r] = iteration[r] + 1
            /\ n_refine'[r] # n_refine[r] =>
                  /\ pc[r] = "refine"
                  /\ n_refine'[r] = n_refine[r] + 1
                  /\ n_refine'[r] = iteration[r]
            /\ n_to_svg'[r] # n_to_svg[r] => pc[r] = "conversion"
       ]_vars

\* A run went through review 1, a refinement, review 2, conversion and storage.
C31_Witness ==
    \E r \in Runs :
      /\ pc[r] = "done"
      /\ n_validate[r] = 2
      /\ n_refine[r] = 1
      /\ refinement_attempts[r] # << >>
      /\ n_to_svg[r] = 1

\* The stream of run r has emitted the event reporting completion of stages[k].
Reported(r, k) ==
    \E i \in DOMAIN events[r] :
      /\ events[r][i].stage = stages[k][1]
      /\ events[r][i].progress = stages[k][2]

\* C32: in a streamed run the event reporting completion of a stage has been
\* emitted before the next stage has run: once the run has recorded the time
\* of stage k+1, the completion event of stage k is in the stream.
C32_StageEventAtBoundary ==
    \A r \in Runs :
      stream_pc[r] # "off" =>
        \A k \in 1..(Len(stages) - 1) :
          stages[k + 1][1] \in step_times[r] => Reported(r, k)

\* C33 (as stated): a thin final artifact never makes the run fail: conversion
\* does not reject it.
C33_ThinNeverFailsRun ==
    \A r \in Runs :
      thin_warned[r] =>
        ~(pc[r] = "failed" /\ exc[r] = "RenderingError" /\ cell_count[r] < MinCells)

\* C33 (amended): the completeness check itself only warns (the run goes on
\* to the to_svg call whatever the count), and a thin artifact with at least
\* MinCells cells is not rejected for its count, so its run can return a
\* result; with fewer than MinCells cells validate_xml rejects the artifact
\* and the run fails with a RenderingError, nothing having been saved.
C33_ThinWarnsButTooFewCellsFail ==
    \A r \in Runs :
      cell_count[r] # NoCount =>
        /\ thin_warned[r] = (cell_count[r] < expected_cells \div 2)
        /\ n_to_svg[r] = 1
        /\ cell_count[r] < MinCells =>
              /\ thin_warned[r]
              /\ pc[r] = "failed"
              /\ exc[r] = "RenderingError"
              /\ raised[r] = "OrchestrationError"
              /\ ~converted[r] /\ n_save[r] = 0
        /\ pc[r] = "done" => cell_count[r] >= MinCells /\ converted[r]

\* A run with a thin final artifact (MinCells cells, below half the expected
\* number) returned a result after the warning.
C33_Witness ==
    \E r \in Runs :
      /\ thin_warned[r]
      /\ cell_count[r] = MinCells
      /\ pc[r] = "done"
      /\ get_file_found(result[r].svg_filename)

\* The claim's rejected inputs: empty, whitespace only, or above 1000 characters.
Rejected(s) ==
    \/ Len(s) = 0
    \/ \A i \in DOMAIN s : s[i] \in Whitespace
    \/ Len(s) > 1000

\* C35: a run whose input is empty, whitespace only or longer than 1000
\* characters never calls the concept-analysis service and never reaches
\* generation, review, refinement, conversion or storage; when it has ended,
\* it has raised OrchestrationError.
C35_InvalidInputRejectedFirst ==
    \A r \in Runs :
      Rejected(user_input[r]) =>
        /\ n_analyze[r] = 0
        /\ pc[r] \in {"planning", "failed"}
        /\ xml_content[r] = NoXml
        /\ n_validate[r] = 0 /\ n_refine[r] = 0 /\ n_to_svg[r] = 0 /\ n_save[r] = 0
        /\ records[r] = {} /\ step_times[r] = {}
        /\ pc[r] = "failed" =>
              /\ exc[r] = "PlanningError"
              /\ raised[r] = "OrchestrationError"
              /\ raised_msg[r] = "Concept analysis failed"

\* A run given whitespace only (three characters) has been rejected.
C35_Witness ==
    \E r \in Runs :
      /\ Len(user_input[r]) = 3
      /\ Rejected(user_input[r])
      /\ pc[r] = "failed"
      /\ n_analyze[r] = 0

\* C34: no worker exists until a refine call is made; a worker is started
\* only by a refine call that finds no handle or a worker that has exited;
\* a call that finds the current worker alive writes to that worker and
\* starts none.
C34_WorkerStartedLazilyAndReused ==
    /\ [](/\ ~started => procs = << >> /\ mcp_process = NoProcess
          /\ (\A r \in Runs : n_refine[r] = 0) => procs = << >> /\ ~started)
    /\ [][/\ Len(procs') >= Len(procs)
          /\ Len(procs') > Len(procs) =>
               /\ Len(procs') = Len(procs) + 1
               /\ \E r \in Runs : pc[r] = "refine" /\ n_refine'[r] = n_refine[r] + 1
               /\ IF mcp_process = NoProcess THEN TRUE ELSE ~procs[mcp_process].alive
          /\ \A r \in Runs :
               (Writes(r) /\ mcp_process # NoProcess /\ procs[Max(mcp_process, 1)].alive) =>
                 /\ reader'[r] = mcp_process
                 /\ mcp_process' = mcp_process
                 /\ Len(procs') = Len(procs)
       ]_vars

\* Both runs wait for the one worker that was ever started.
C34_Witness ==
    /\ Len(procs) = 1
    /\ procs[1].alive
    /\ \A r \in Runs : pc[r] = "refine_wait" /\ reader[r] = 1

\* C38: in a returned result that did not use the first-iteration fallback,
\* the artifact that was converted and stored is the one the review behind
\* review_score was made on.
C38_ScoreIsOfFinalArtifact ==
    \A r \in Runs :
      (pc[r] = "done" /\ review_err_at[r] # 1) =>
        /\ result[r].review_score = review_result[r].score
        /\ reviewed[r] = xml_content[r]

C40_LiveWorkerIsCurrent ==
    \A w \in DOMAIN procs : procs[w].alive => mcp_process = w

\* --------------------------------------------------- the file manager alone
\* save_file, get_file, delete_file and cleanup_expired_files called directly
\* (as the tests and the download endpoint do), the TTL tasks, and time passing.
MaxFileSize == 5242880
AllowedFormats == {"png", "svg", "xml"}

\* Each format is saved at most once under FileSpec: the names of run 1.
FmNames == {FileName(1, fmt) : fmt \in {"svg", "xml"}}

\* A name delete_file and get_file reject: it contains "/" or starts with ".".
TraversalName == <<0, "../">>
ValidName(n) == n # TraversalName

\* The contents handed to save_file, the last one larger than max_file_size.
TooLarge == Encode("large")
FmContents == {Encode("a"), Encode("b"), TooLarge}
Size(content) == IF content = TooLarge THEN MaxFileSize + 1 ELSE 1
FmFormats == {"svg", "xml", "gif"}

FmCall(op, name, outcome) == [op |-> op, name |-> name, outcome |-> outcome]

\* orchestrate takes no step while the file manager is driven directly.
OrchestratorIdle ==
    UNCHANGED <<max_iterations, runVars, chanVars, histVars, diagram_svg, ctxVars,
                streamVars, inputVars, reviewVars>>

\* save_file(content, file_format): format and size are validated, the file is
\* written under a fresh uuid4 name and its TTL task is created.
FmSave(content, fmt) ==
    /\ IF fmt \notin AllowedFormats \/ Size(content) > MaxFileSize
       THEN /\ fm_call' = FmCall("save", NoFile, "FileOperationError")
            /\ UNCHANGED <<files, file_bytes, ttl_task>>
       ELSE LET n == FileName(1, fmt) IN
            /\ file_bytes[n] = NoBytes
            /\ \/ /\ files' = files \cup {n}
                  /\ file_bytes' = [file_bytes EXCEPT ![n] = content]
                  /\ ttl_task' = [ttl_task EXCEPT ![n] = "sleeping"]
                  /\ fm_call' = FmCall("save", n, "ok")
               \/ \* write_bytes raises IOError
                  /\ fm_call' = FmCall("save", NoFile, "FileOperationError")
                  /\ UNCHANGED <<files, file_bytes, ttl_task>>
    /\ UNCHANGED expired
    /\ OrchestratorIdle

\* get_file(filename): the bytes, or FileOperationError for a rejected or
\* missing name.
FmGet(n) ==
    /\ fm_call' = FmCall("get", n, IF ValidName(n) THEN get_file(n)
                                   ELSE <<"FileOperationError", "Invalid filename">>)
    /\ UNCHANGED <<files, file_bytes, ttl_task, expired>>
    /\ OrchestratorIdle

\* Variant: delete_file empties the directory.
UnlinkedAll(n) == files

\* The files delete_file(n) unlinks.
Unlinked(n) == {n}

\* delete_file(filename): the name is validated, the file is unlinked if it
\* exists; an IOError of unlink becomes FileOperationError.
FmDelete(n) ==
    /\ IF ~ValidName(n)
       THEN /\ fm_call' = FmCall("delete", n, "FileOperationError")
            /\ UNCHANGED files
       ELSE IF n \in files
       THEN \/ /\ files' = files \ Unlinked(n)
               /\ fm_call' = FmCall("delete", n, "ok")
            \/ \* unlink raises IOError
               /\ fm_call' = FmCall("delete", n, "FileOperationError")
               /\ UNCHANGED files
       ELSE \* filepath.exists() is false: nothing to do
            /\ fm_call' = FmCall("delete", n, "ok")
            /\ UNCHANGED files
    /\ UNCHANGED <<file_bytes, ttl_task, expired>>
    /\ OrchestratorIdle

\* The files cleanup_expired_files unlinks: now - modified_time > ttl_delta.
CleanupCandidates == files \cap expired

\* cleanup_expired_files(): unlinks the candidates one by one; an exception of
\* stat or unlink ends the loop with FileOperationError.
FmCleanupExpired ==
    /\ \E gone \in SUBSET CleanupCandidates :
         /\ files' = files \ gone
         /\ fm_call' = FmCall("cleanup", NoFile,
                              IF gone = CleanupCandidates THEN "ok"
                              ELSE "FileOperationError")
    /\ UNCHANGED <<file_bytes, ttl_task, expired>>
    /\ OrchestratorIdle

\* Time passes: the modification time of n is now more than the TTL in the past.
TtlElapses(n) ==
    /\ file_bytes[n] # NoBytes
    /\ n \notin expired
    /\ expired' = expired \cup {n}
    /\ UNCHANGED <<files, file_bytes, ttl_task, fm_call>>
    /\ OrchestratorIdle

\* What _cleanup_file_after_ttl unlinks after its sleep: the file if it exists.
TtlTarget(n) == IF n \in files THEN {n} ELSE {}

\* _cleanup_file_after_ttl(filepath) after await asyncio.sleep(ttl_seconds):
\* unlinks the file if it exists; an exception is only logged.
TtlTaskRuns(n) ==
    /\ ttl_task[n] = "sleeping"
    /\ n \in expired
    /\ ttl_task' = [ttl_task EXCEPT ![n] = "done"]
    /\ \/ files' = files \ TtlTarget(n)
       \/ \* unlink raises: logged, nothing is retried
          /\ n \in files
          /\ UNCHANGED files
    /\ UNCHANGED <<file_bytes, expired, fm_call>>
    /\ OrchestratorIdle

\* The server process is stopped and started again: temp_dir keeps its files,
\* the sleeping TTL tasks are gone, and the new FileManager() creates none.
Restart ==
    /\ \E n \in FmNames : ttl_task[n] = "sleeping"
    /\ ttl_task' = [n \in AllNames |-> IF ttl_task[n] = "sleeping" THEN "lost"
                                       ELSE ttl_task[n]]
    /\ UNCHANGED <<files, file_bytes, expired, fm_call>>
    /\ OrchestratorIdle

FileInit ==
    /\ max_iterations = DefaultMaxIterations
    /\ Constructed
    /\ NoStream
    /\ SameTopic

FileNext ==
    \/ \E content \in FmContents, fmt \in FmFormats : FmSave(content, fmt)
    \/ \E n \in FmNames \cup {TraversalName} : FmGet(n)
    \/ \E n \in FmNames \cup {TraversalName} : FmDelete(n)
    \/ FmCleanupExpired
    \/ \E n \in FmNames : TtlElapses(n)
    \/ \E n \in FmNames : TtlTaskRuns(n)
    \/ Restart

FileSpec == FileInit /\ [][FileNext]_vars

\* Time passes and a TTL task whose sleep is over is run by the event loop.
FileFairSpec ==
    /\ FileInit
    /\ [][FileNext]_vars
    /\ \A n \in FmNames : WF_vars(TtlElapses(n)) /\ WF_vars(TtlTaskRuns(n))

\* C36: a delete_file call that returns leaves the named file absent, so that
\* get_file on it fails with not-found, and leaves every other file and all
\* stored bytes as they were; delete_file on a well-formed name that is not
\* stored returns without error and changes nothing, so a second delete of the
\* same name is a no-op.
C36_DeleteRemovesOnlyNamedFile ==
    /\ [](fm_call.op = "delete" /\ fm_call.outcome = "ok"
            => get_file(fm_call.name) = FileNotFound)
    /\ [][fm_call' # fm_call /\ fm_call'.op = "delete"
            => LET n == fm_call'.name IN
               /\ files' \ {n} = files \ {n}
               /\ \A o \in files' : get_file(o)' = get_file(o)
               /\ file_bytes' = file_bytes
               /\ fm_call'.outcome = "ok" => n \notin files'
               /\ ValidName(n) /\ n \notin files
                    => fm_call'.outcome = "ok" /\ files' = files]_vars

\* One of two stored files has been deleted; the other can still be read.
C36_Witness ==
    /\ fm_call = FmCall("delete", FileName(1, "svg"), "ok")
    /\ file_bytes[FileName(1, "svg")] # NoBytes
    /\ get_file(FileName(1, "svg")) = FileNotFound
    /\ get_file(FileName(1, "xml")) \in FmContents

\* C37 (as stated): every saved file is eventually absent, so that get_file on
\* its handle fails with not-found; cleanup_expired_files removes only files
\* older than the TTL; the TTL task of a file that is already deleted changes
\* nothing.
C37_ExpiredFilesAreRemoved ==
    /\ \A n \in FmNames : (n \in files) ~> (get_file(n) = FileNotFound)
    /\ [][/\ (files' # files /\ ttl_task' = ttl_task /\ fm_call'.op = "cleanup")
               => (files \ files') \subseteq expired
          /\ \A n \in FmNames :
               (ttl_task[n] = "sleeping" /\ ttl_task'[n] = "done" /\ n \notin files)
                   => files' = files /\ file_bytes' = file_bytes]_vars

====
